---- MODULE Spec2Model ----
(***************************************************************************)
(* Model of Exciting_Choices/data_functions.py: the tabular helpers        *)
(* read_data, remove_outliers, specify_range, replace_na, fill_missing,    *)
(* na_cols, find_top, bar_top and pie_top, over small pandas-like tables.  *)
(*                                                                         *)
(* A table is a sequence of rows; a row is a record with one field per     *)
(* column.  Numeric cells are exact rationals <<num, den>> (den > 0);      *)
(* NaN is <<0, 0>>.  Text cells are strings; the missing text cell is      *)
(* NaStr.  pandas semantics that the code relies on (skipna aggregates,    *)
(* ddof = 1, NaN comparisons being False, groupby dropping NaN keys) are   *)
(* modelled in the helper each call uses.                                  *)
(***************************************************************************)
EXTENDS Integers, Sequences, FiniteSets, TLC

VARIABLES file, df, old, call, ret, chart

vars == <<file, df, old, call, ret, chart>>

(* ------------------------------ bounds -------------------------------- *)

\* Longest exhaustively enumerated table.
MaxRows == 2

\* Cell values of the enumerated tables.
AmountInts == {0, 1}
GroupNames == {"A", "B"}

\* Arguments tried by the callers.
RangeArgs == 1 .. 2
Methods == {"mean", "max"}
Formats == {"csv", "json", "excel", "xml"}

(* ------------------------------ cells --------------------------------- *)

NaN == <<0, 0>>
NaStr == "NaN"

GroupCol == "category"
NumCols == {"projectid", "amount"}
Columns == <<"category", "projectid", "amount">>

Abs(n) == IF n < 0 THEN -n ELSE n

RECURSIVE GCD(_, _)
GCD(a, b) == IF b = 0 THEN a ELSE GCD(b, a % b)

LCM(a, b) == (a * b) \div GCD(a, b)

\* The rational n/d in lowest terms, d > 0.
Rat(n, d) ==
    LET g == GCD(Abs(n), d) IN <<n \div g, d \div g>>

Whole(n) == <<n, 1>>

RAdd(x, y) ==
    LET l == LCM(x[2], y[2]) IN Rat(x[1] * (l \div x[2]) + y[1] * (l \div y[2]), l)

RSub(x, y) == RAdd(x, <<-y[1], y[2]>>)

RMul(x, y) == Rat(x[1] * y[1], x[2] * y[2])

RDivInt(x, n) == Rat(x[1], x[2] * n)

RLt(x, y) ==
    LET l == LCM(x[2], y[2]) IN x[1] * (l \div x[2]) < y[1] * (l \div y[2])

RLe(x, y) == ~ RLt(y, x)

\* pandas isna on one cell of column c.
isna(row, c) == IF c \in NumCols THEN row[c][2] = 0 ELSE row[c] = NaStr

Range(s) == {s[i] : i \in 1 .. Len(s)}

\* The non-missing cells of column c, in row order (skipna=True).
RECURSIVE dropna(_, _)
dropna(t, c) ==
    IF t = <<>> THEN <<>>
    ELSE IF isna(t[1], c) THEN dropna(Tail(t), c)
    ELSE <<t[1][c]>> \o dropna(Tail(t), c)

RECURSIVE RSum(_)
RSum(s) == IF s = <<>> THEN Whole(0) ELSE RAdd(s[1], RSum(Tail(s)))

RECURSIVE RMax(_)
RMax(s) ==
    IF Len(s) = 1 THEN s[1]
    ELSE LET m == RMax(Tail(s)) IN IF RLt(s[1], m) THEN m ELSE s[1]

\* Series.mean(): NaN for a column with no non-missing value.
mean(t, c) ==
    LET s == dropna(t, c) IN
    IF s = <<>> THEN NaN ELSE RDivInt(RSum(s), Len(s))

\* Series.max(): NaN for a column with no non-missing value.
max(t, c) ==
    LET s == dropna(t, c) IN IF s = <<>> THEN NaN ELSE RMax(s)

RECURSIVE SqDev(_, _)
SqDev(s, m) ==
    IF s = <<>> THEN Whole(0)
    ELSE RAdd(RMul(RSub(s[1], m), RSub(s[1], m)), SqDev(Tail(s), m))

\* Population variant (ddof = 0) of the variance.
var_ddof0(t, c) ==
    LET s == dropna(t, c) IN
    IF Len(s) < 1 THEN NaN ELSE RDivInt(SqDev(s, mean(t, c)), Len(s))

\* Series.std() squared: the sample variance (ddof = 1), NaN below two values.
var(t, c) ==
    LET s == dropna(t, c) IN
    IF Len(s) < 2 THEN NaN ELSE RDivInt(SqDev(s, mean(t, c)), Len(s) - 1)

\* ((v - m) / std).abs() < 3, with std = sqrt(v2).  NaN operands and the
\* 0/0 of a zero deviation compare False.
abs_z_lt_3(v, m, v2) ==
    /\ v[2] # 0
    /\ m[2] # 0
    /\ v2[2] # 0
    /\ v2[1] # 0
    /\ RLt(RMul(RSub(v, m), RSub(v, m)), RMul(Whole(9), v2))

(* --------------------------- the functions ---------------------------- *)

\* df[mask]: the rows selected by a boolean mask, in their order.
RECURSIVE Filter(_, _)
Filter(t, mask) ==
    IF t = <<>> THEN <<>>
    ELSE (IF mask[1] THEN <<t[1]>> ELSE <<>>) \o Filter(Tail(t), Tail(mask))

\* Variant of remove_outliers that standardises with the population deviation.
remove_outliers_ddof0(t, col) ==
    Filter(t, [i \in 1 .. Len(t) |->
                  abs_z_lt_3(t[i][col], mean(t, col), var_ddof0(t, col))])

\* Variant of remove_outliers that keeps the outliers instead.
remove_outliers_inverted(t, col) ==
    Filter(t, [i \in 1 .. Len(t) |->
                  ~ abs_z_lt_3(t[i][col], mean(t, col), var(t, col))])

remove_outliers(t, col) ==
    Filter(t, [i \in 1 .. Len(t) |->
                  abs_z_lt_3(t[i][col], mean(t, col), var(t, col))])

\* Variant of specify_range with an exclusive upper bound.
specify_range_excl(t, col, min, max_) ==
    Filter(t, [i \in 1 .. Len(t) |->
                  /\ ~ isna(t[i], col)
                  /\ RLe(Whole(min), t[i][col])
                  /\ RLt(t[i][col], Whole(max_))])

\* NaN >= min and NaN <= max are both False.
specify_range(t, col, min, max_) ==
    Filter(t, [i \in 1 .. Len(t) |->
                  /\ ~ isna(t[i], col)
                  /\ RLe(Whole(min), t[i][col])
                  /\ RLe(t[i][col], Whole(max_))])

\* Series.fillna(val): NaN cells take val; fillna(NaN) changes nothing.
fillna(t, c, val) ==
    [i \in 1 .. Len(t) |->
        IF isna(t[i], c) THEN [t[i] EXCEPT ![c] = val] ELSE t[i]]

\* df.isna().any() for one column.
isna_any(t, c) == \E i \in 1 .. Len(t) : isna(t[i], c)

na_cols(t) == SelectSeq(Columns, LAMBDA c : isna_any(t, c))

\* An aggregate of a text column raises TypeError as soon as the column
\* holds a string; an all-missing column is read as float64 and gives NaN.
raises_TypeError(t, c) ==
    /\ c \notin NumCols
    /\ \E i \in 1 .. Len(t) : ~ isna(t[i], c)

\* getattr(df[var], method)()
aggregate(t, c, method) ==
    IF c \notin NumCols THEN NaStr
    ELSE IF method = "mean" THEN mean(t, c) ELSE max(t, c)

\* replace_na: the table after the call (unchanged when the aggregate raises).
replace_na(t, c, method) ==
    IF raises_TypeError(t, c) THEN t ELSE fillna(t, c, aggregate(t, c, method))

\* fill_missing: replace_na(df, col) over the columns of na_cols, in column
\* order, stopping at the first column whose mean raises.
RECURSIVE fill_loop(_, _)
fill_loop(t, cols) ==
    IF cols = <<>> THEN [table |-> t, raised |-> ""]
    ELSE IF raises_TypeError(t, cols[1]) THEN [table |-> t, raised |-> "TypeError"]
    ELSE fill_loop(replace_na(t, cols[1], "mean"), Tail(cols))

fill_missing(t) == fill_loop(t, na_cols(t))

\* Group keys of groupby(col, sort=False): non-missing values of the group
\* column in order of first appearance.
RECURSIVE group_keys(_, _)
group_keys(t, seen) ==
    IF t = <<>> THEN <<>>
    ELSE IF t[1][GroupCol] = NaStr \/ t[1][GroupCol] \in seen
         THEN group_keys(Tail(t), seen)
    ELSE <<t[1][GroupCol]>> \o group_keys(Tail(t), seen \cup {t[1][GroupCol]})

\* Variant of count that counts rows (.size()) rather than non-missing cells.
count_size(t, k, c) ==
    Cardinality({i \in 1 .. Len(t) : t[i][GroupCol] = k})

\* .count(): per group, the number of non-missing cells of every other column.
count(t, k, c) ==
    Cardinality({i \in 1 .. Len(t) : t[i][GroupCol] = k /\ ~ isna(t[i], c)})

groupby_count(t) ==
    LET ks == group_keys(t, {}) IN
    [j \in 1 .. Len(ks) |->
        [key |-> ks[j],
         projectid |-> count(t, ks[j], "projectid"),
         amount |-> count(t, ks[j], "amount")]]

\* sort_values(by, ascending): ties keep the order of the grouped frame.
RECURSIVE sort_values(_, _, _)
sort_values(g, by, ascending) ==
    IF g = <<>> THEN <<>>
    ELSE LET n == Len(g)
             x == g[n]
             t == sort_values(SubSeq(g, 1, n - 1), by, ascending)
             before(y) == IF ascending THEN y[by] <= x[by] ELSE y[by] >= x[by]
         IN SelectSeq(t, before) \o <<x>> \o SelectSeq(t, LAMBDA y : ~ before(y))

\* Variant of find_top that sorts in increasing order.
find_top_asc(t, sort_by, ascending) ==
    sort_values(groupby_count(t), sort_by, TRUE)

\* find_top sorts with ascending=False whatever the caller passed.
find_top(t, sort_by, ascending) ==
    sort_values(groupby_count(t), sort_by, FALSE)

\* Series.head(n)
head(s, n) == SubSeq(s, 1, IF n < Len(s) THEN n ELSE Len(s))

DefaultSortBy == "projectid"
DefaultMax == 5
NumColors == 5

NoChart == [kind |-> "none", labels |-> <<>>, values |-> <<>>, warned |-> FALSE]

\* bar_top: what plot_bar_chart receives.
bar_top(t, selected_col, max_) ==
    LET top == head(find_top(t, DefaultSortBy, FALSE), max_) IN
    [kind |-> "bar",
     labels |-> [j \in 1 .. Len(top) |-> top[j].key],
     values |-> [j \in 1 .. Len(top) |-> top[j][selected_col]],
     warned |-> FALSE]

\* pie_top: what plot_pie_chart receives; it warns when it has fewer colors
\* than values.
pie_top(t, selected_col) ==
    LET top == find_top(t, DefaultSortBy, FALSE) IN
    [kind |-> "pie",
     labels |-> [j \in 1 .. Len(top) |-> top[j].key],
     values |-> [j \in 1 .. Len(top) |-> top[j][selected_col]],
     warned |-> NumColors < Len(top)]

\* read_data: all_data is bound only for csv, json and excel.
read_data_raises(source_type) ==
    IF source_type \in {"csv", "json", "excel"} THEN "" ELSE "UnboundLocalError"

(* ------------------------------ tables -------------------------------- *)

MkRow(cat, pid, amt) == [category |-> cat, projectid |-> Whole(pid), amount |-> amt]

CellPairs ==
    (GroupNames \cup {NaStr}) \X ({Whole(a) : a \in AmountInts} \cup {NaN})

\* Every table of n rows over CellPairs; projectid is the row number.
TablesOfLen(n) ==
    {[i \in 1 .. n |-> MkRow(f[i][1], i, f[i][2])] : f \in [1 .. n -> CellPairs]}

SmallTables == UNION {TablesOfLen(n) : n \in 0 .. MaxRows}

\* A table with the given amounts, one group.
AmountTable(amts) == [i \in 1 .. Len(amts) |-> MkRow("A", i, Whole(amts[i]))]

\* A table with the given categories, amount 0 throughout.
CategoryTable(cats) == [i \in 1 .. Len(cats) |-> MkRow(cats[i], i, Whole(0))]

AmountScenario == AmountTable(<<10, 12, 11, 1000, 9>>)

CategoryScenario == CategoryTable(<<"A", "A", "B", "A", "C", "B">>)

SixGroups == CategoryTable(<<"A", "B", "C", "D", "E", "F">>)

\* One 1 among nine and among ten 0s: |z| is 9/sqrt(10) and 10/sqrt(11).
Spike10 == AmountTable(<<0, 0, 0, 0, 1, 0, 0, 0, 0, 0>>)

Spike11 == AmountTable(<<0, 0, 0, 0, 1, 0, 0, 0, 0, 0, 0>>)

\* Spike11 with a missing amount in its last row.
Spike11Na == Spike11 \o <<MkRow("B", 12, NaN)>>

ScenarioTables ==
    {AmountScenario, CategoryScenario, SixGroups, Spike10, Spike11, Spike11Na}

Files == SmallTables \cup ScenarioTables

(* ------------------------------- state -------------------------------- *)

Call(op) ==
    [op |-> op, col |-> "", min |-> 0, max |-> 0, method |-> "",
     ascending |-> FALSE, source_type |-> ""]

\* What a call gave back: the exception it raised ("" for none) and the
\* returned table, list of column names or ranking.
Ret(raised, table, names, top) ==
    [raised |-> raised, table |-> table, names |-> names, top |-> top]

None == Ret("", <<>>, <<>>, <<>>)

Init ==
    /\ file \in Files
    /\ df = file
    /\ old = file
    /\ call = Call("none")
    /\ ret = None
    /\ chart = NoChart

\* all_data = read_data(file, source_type)
ReadData(source_type) ==
    /\ call' = [Call("read_data") EXCEPT !.source_type = source_type]
    /\ ret' = IF read_data_raises(source_type) = ""
              THEN Ret("", file, <<>>, <<>>)
              ELSE Ret(read_data_raises(source_type), <<>>, <<>>, <<>>)
    /\ old' = df
    /\ chart' = NoChart
    /\ UNCHANGED <<file, df>>

RemoveOutliers(col) ==
    /\ call' = [Call("remove_outliers") EXCEPT !.col = col]
    /\ ret' = Ret("", remove_outliers(df, col), <<>>, <<>>)
    /\ old' = df
    /\ chart' = NoChart
    /\ UNCHANGED <<file, df>>

SpecifyRange(col, min, max_) ==
    /\ call' = [Call("specify_range") EXCEPT !.col = col, !.min = min, !.max = max_]
    /\ ret' = Ret("", specify_range(df, col, min, max_), <<>>, <<>>)
    /\ old' = df
    /\ chart' = NoChart
    /\ UNCHANGED <<file, df>>

\* replace_na mutates df and returns nothing.
ReplaceNa(var_, method) ==
    /\ var_ \in NumCols \/ method = "mean"
    /\ call' = [Call("replace_na") EXCEPT !.col = var_, !.method = method]
    /\ ret' = IF raises_TypeError(df, var_)
              THEN Ret("TypeError", <<>>, <<>>, <<>>) ELSE None
    /\ df' = replace_na(df, var_, method)
    /\ old' = df
    /\ chart' = NoChart
    /\ UNCHANGED file

\* fill_missing mutates df and returns it.
FillMissing ==
    LET r == fill_missing(df) IN
    /\ call' = Call("fill_missing")
    /\ ret' = IF r.raised = "" THEN Ret("", r.table, <<>>, <<>>)
              ELSE Ret(r.raised, <<>>, <<>>, <<>>)
    /\ df' = r.table
    /\ old' = df
    /\ chart' = NoChart
    /\ UNCHANGED file

NaCols ==
    /\ call' = Call("na_cols")
    /\ ret' = Ret("", <<>>, na_cols(df), <<>>)
    /\ old' = df
    /\ chart' = NoChart
    /\ UNCHANGED <<file, df>>

FindTop(sort_by, ascending) ==
    /\ call' = [Call("find_top") EXCEPT !.col = sort_by, !.ascending = ascending]
    /\ ret' = Ret("", <<>>, <<>>, find_top(df, sort_by, ascending))
    /\ old' = df
    /\ chart' = NoChart
    /\ UNCHANGED <<file, df>>

BarTop(selected_col, max_) ==
    /\ call' = [Call("bar_top") EXCEPT !.col = selected_col, !.max = max_]
    /\ ret' = None
    /\ chart' = bar_top(df, selected_col, max_)
    /\ old' = df
    /\ UNCHANGED <<file, df>>

PieTop(selected_col) ==
    /\ call' = [Call("pie_top") EXCEPT !.col = selected_col]
    /\ ret' = None
    /\ chart' = pie_top(df, selected_col)
    /\ old' = df
    /\ UNCHANGED <<file, df>>

Next ==
    \/ \E source_type \in Formats : ReadData(source_type)
    \/ \E col \in NumCols : RemoveOutliers(col)
    \/ \E col \in NumCols, min \in RangeArgs, max_ \in RangeArgs :
           SpecifyRange(col, min, max_)
    \/ \E var_ \in Range(Columns), method \in Methods : ReplaceNa(var_, method)
    \/ FillMissing
    \/ NaCols
    \/ \E sort_by \in NumCols, ascending \in BOOLEAN : FindTop(sort_by, ascending)
    \/ \E selected_col \in NumCols, max_ \in {2, DefaultMax} : BarTop(selected_col, max_)
    \/ \E selected_col \in NumCols : PieTop(selected_col)

Spec == Init /\ [][Next]_vars

(* ------------------------- remove_outliers ---------------------------- *)

\* Number, sum and sum of squares of the non-missing cells of column c.
CountOf(t, c) == Len(dropna(t, c))

SumOf(t, c) == RSum(dropna(t, c))

RECURSIVE SumSq(_)
SumSq(s) == IF s = <<>> THEN Whole(0) ELSE RAdd(RMul(s[1], s[1]), SumSq(Tail(s)))

\* n * sum(v^2) - sum(v)^2: n^2 times the population variance.
Spread(t, c) ==
    RSub(RMul(Whole(CountOf(t, c)), SumSq(dropna(t, c))),
         RMul(SumOf(t, c), SumOf(t, c)))

NonzeroVariance(t, c) == Spread(t, c)[1] # 0

\* std = 0: at least two non-missing values, all of them equal.
ZeroStd(t, c) == CountOf(t, c) >= 2 /\ Spread(t, c)[1] = 0

\* |v - mean| / stddev < 3 for the cell of row r, with the mean and the
\* sample standard deviation of column c of t, cleared of fractions:
\* (n v - S)^2 (n - 1) < 9 n (n Q - S^2).
ZBelow3(t, c, r) ==
    LET n == CountOf(t, c)
        d == RSub(RMul(Whole(n), r[c]), SumOf(t, c))
    IN /\ ~ isna(r, c)
       /\ RLt(RMul(RMul(d, d), Whole(n - 1)), RMul(Whole(9 * n), Spread(t, c)))

\* s holds rows of t, in the order of t, each once.
IsSubTable(s, t) == s = SelectSeq(t, LAMBDA r : r \in Range(s))

\* C1: on a column of nonzero variance remove_outliers returns a row subset
\* of the table in the original order, leaves the table itself unchanged,
\* and retains exactly the rows whose |z| is below 3.
C1_RemoveOutliersKeepsInliers ==
    (call.op = "remove_outliers" /\ NonzeroVariance(old, call.col)) =>
        /\ ret.raised = ""
        /\ df = old
        /\ IsSubTable(ret.table, old)
        /\ \A r \in Range(old) :
               r \in Range(ret.table) <=> ZBelow3(old, call.col, r)

\* C1 witness: an outlier of a column of nonzero variance was removed and
\* the other rows were kept.
C1_Witness ==
    /\ call.op = "remove_outliers"
    /\ NonzeroVariance(old, call.col)
    /\ ret.table # <<>>
    /\ \E r \in Range(old) : ~ isna(r, call.col) /\ r \notin Range(ret.table)

IsAmountScenarioCall ==
    call.op = "remove_outliers" /\ call.col = "amount" /\ old = AmountScenario

\* C2 as stated: on amount = [10, 12, 11, 1000, 9] remove_outliers removes
\* the row with 1000 and keeps the other four.
C2_Original ==
    IsAmountScenarioCall =>
        ret.table = SelectSeq(AmountScenario, LAMBDA r : r.amount # Whole(1000))

\* C2 amended: on amount = [10, 12, 11, 1000, 9] remove_outliers keeps all
\* five rows (the |z| of 1000 is about 1.79).
C2_ScenarioKeepsAllRows ==
    IsAmountScenarioCall => ret.raised = "" /\ ret.table = AmountScenario

\* C2 witness: remove_outliers ran on the scenario table and returned the
\* row holding 1000.
C2_Witness ==
    /\ IsAmountScenarioCall
    /\ \E r \in Range(ret.table) : r.amount = Whole(1000)

\* C9 as stated: remove_outliers on a column whose standard deviation is
\* zero signals DegenerateColumnError.
C9_Original ==
    (call.op = "remove_outliers" /\ ZeroStd(old, call.col)) =>
        ret.raised = "DegenerateColumnError"

(* --------------------------- specify_range ---------------------------- *)

\* min <= value <= max for a cell num/den.
InRange(v, min, max_) == v[2] # 0 /\ min * v[2] <= v[1] /\ v[1] <= max_ * v[2]

\* C6: specify_range returns exactly the rows with min <= value <= max, in
\* the original order, leaves the table unchanged, raises nothing, and
\* returns no row when min > max.
C6_SpecifyRangeExact ==
    call.op = "specify_range" =>
        /\ ret.raised = ""
        /\ df = old
        /\ ret.table =
               SelectSeq(old, LAMBDA r : InRange(r[call.col], call.min, call.max))
        /\ (call.min > call.max => ret.table = <<>>)

\* C6 witness: a range call kept a row whose value is the upper bound and
\* dropped both a row out of range and a row with a missing value.
C6_Witness ==
    /\ call.op = "specify_range"
    /\ call.min <= call.max
    /\ \E r \in Range(ret.table) : r[call.col] = Whole(call.max)
    /\ \E r \in Range(old) : ~ isna(r, call.col) /\ r \notin Range(ret.table)
    /\ \E r \in Range(old) : isna(r, call.col)

(* ------------------------------ find_top ------------------------------ *)

RECURSIVE SumCounts(_, _)
SumCounts(top, c) ==
    IF top = <<>> THEN 0 ELSE top[1][c] + SumCounts(Tail(top), c)

\* The distinct non-missing values of the group column.
GroupValues(t) == {r[GroupCol] : r \in Range(t)} \ {NaStr}

NonIncreasing(top, c) == \A j \in 1 .. Len(top) - 1 : top[j][c] >= top[j + 1][c]

NonDecreasing(top, c) == \A j \in 1 .. Len(top) - 1 : top[j][c] <= top[j + 1][c]

\* C3 as stated: find_top orders the groups by count, non-increasing by
\* default and non-decreasing when the caller passes ascending=true.
C3_Original ==
    (/\ call.op = "find_top"
     /\ \E j, k \in 1 .. Len(ret.top) : ret.top[j][call.col] # ret.top[k][call.col]) =>
        IF call.ascending THEN NonDecreasing(ret.top, call.col)
        ELSE NonIncreasing(ret.top, call.col)

OneEntryPerGroup ==
    /\ Len(ret.top) = Cardinality(GroupValues(old))
    /\ {ret.top[j].key : j \in 1 .. Len(ret.top)} = GroupValues(old)

RankingOn(t, c) == sort_values(groupby_count(t), c, FALSE)

\* C7 as stated: bar_top and pie_top hand the renderer the first
\* min(max, number of groups) entries of the ranking computed on the
\* selected column, max being 5 for pie_top.
C7_Original ==
    chart.kind \in {"bar", "pie"} =>
        LET m == IF chart.kind = "bar" THEN call.max ELSE DefaultMax
            top == head(RankingOn(old, call.col), m)
        IN /\ chart.labels = [j \in 1 .. Len(top) |-> top[j].key]
           /\ chart.values = [j \in 1 .. Len(top) |-> top[j][call.col]]

(* ------------------------------ read_data ----------------------------- *)

\* C8 as stated: read_data with a format other than csv, json and excel
\* ends in UnsupportedFormatError.
C8_Original ==
    (call.op = "read_data" /\ call.source_type \notin {"csv", "json", "excel"}) =>
        ret.raised = "UnsupportedFormatError"

(* ----------------------- replace_na, fill_missing --------------------- *)

\* C5 as stated: after replace_na(T, c, 'mean') on a column with a missing
\* value, c is not in na_cols(T), the cells that were missing hold the mean
\* of the cells that were not, and everything else is unchanged.
C5_Original ==
    (/\ call.op = "replace_na"
     /\ call.method = "mean"
     /\ call.col \in NumCols
     /\ isna_any(old, call.col)) =>
        /\ call.col \notin Range(na_cols(df))
        /\ Len(df) = Len(old)
        /\ \A i \in 1 .. Len(old) :
               /\ isna(old[i], call.col) =>
                      df[i][call.col] = RDivInt(SumOf(old, call.col), CountOf(old, call.col))
               /\ \A c \in Range(Columns) :
                      (c # call.col \/ ~ isna(old[i], c)) => df[i][c] = old[i][c]

\* C10 as stated: replace_na on a column without a non-missing value fails
\* with EmptyColumnError and leaves the table unchanged, and fill_missing
\* never returns a table that still has a column with missing values.
C10_Original ==
    /\ (/\ call.op = "replace_na"
        /\ call.col \in NumCols
        /\ old # <<>>
        /\ CountOf(old, call.col) = 0) =>
           (ret.raised = "EmptyColumnError" /\ df = old)
    /\ (call.op = "fill_missing" /\ ret.raised = "") => na_cols(ret.table) = <<>>

====
